---- MODULE Spec2Model ----
(***************************************************************************)
(* A model of ptv/client.py: PTVClient builds a signed request URL from a  *)
(* path and a dict of query parameters, issues one HTTP GET and decodes    *)
(* the JSON body.                                                          *)
(*                                                                         *)
(* Text is a sequence of fragments (strings).  Values that the code        *)
(* converts (str(), lower(), quote) are spelled one character per          *)
(* fragment; the literal keys and path pieces of the source are single     *)
(* fragments.  Flat joins the fragments into one string.                   *)
(***************************************************************************)
EXTENDS Integers, Sequences, FiniteSets, TLC

\* ------------------------------------------------------------------ bounds
\* At most this many optional arguments are supplied to one endpoint call.
MaxSupplied == 2

\* ------------------------------------------------------------ Python values
\* One record shape for every Python value: t is the type, n the number of
\* an int (0/1 for a bool), s the text of a str, l the elements of a list.
PyNone == [t |-> "None", n |-> 0, s |-> <<>>, l |-> <<>>]
PyBool(b) == [t |-> "bool", n |-> IF b THEN 1 ELSE 0, s |-> <<>>, l |-> <<>>]
PyInt(i) == [t |-> "int", n |-> i, s |-> <<>>, l |-> <<>>]
PyStr(chars) == [t |-> "str", n |-> 0, s |-> chars, l |-> <<>>]
PyList(elems) == [t |-> "list", n |-> 0, s |-> <<>>, l |-> elems]

\* Python truth value testing: `if x:`.
Truthy(v) ==
    CASE v.t = "None" -> FALSE
      [] v.t = "bool" -> v.n = 1
      [] v.t = "int" -> v.n # 0
      [] v.t = "str" -> v.s # <<>>
      [] v.t = "list" -> v.l # <<>>

\* `x != None`.
NotNone(v) == v.t # "None"

RECURSIVE Flat(_)
Flat(text) == IF text = <<>> THEN "" ELSE Head(text) \o Flat(Tail(text))

DigitChars == <<"0", "1", "2", "3", "4", "5", "6", "7", "8", "9">>

\* The decimal spelling of a natural number.
RECURSIVE Digits(_)
Digits(i) ==
    IF i < 10 THEN <<DigitChars[i + 1]>>
    ELSE Digits(i \div 10) \o <<DigitChars[(i % 10) + 1]>>

\* repr() of a list element.
Repr(v) ==
    CASE v.t = "str" -> <<"'">> \o v.s \o <<"'">>
      [] v.t = "int" -> Digits(v.n)
      [] v.t = "bool" -> IF v.n = 1 THEN <<"T", "r", "u", "e">>
                                    ELSE <<"F", "a", "l", "s", "e">>
      [] OTHER -> <<"N", "o", "n", "e">>

RECURSIVE ReprJoin(_)
ReprJoin(elems) ==
    IF elems = <<>> THEN <<>>
    ELSE IF Len(elems) = 1 THEN Repr(elems[1])
    ELSE Repr(elems[1]) \o <<",", " ">> \o ReprJoin(Tail(elems))

\* str(x), which is also what an f-string puts in place of {x}.
Str(v) ==
    CASE v.t = "str" -> v.s
      [] v.t = "list" -> <<"[">> \o ReprJoin(v.l) \o <<"]">>
      [] OTHER -> Repr(v)

UpperChars ==
    <<"A", "B", "C", "D", "E", "F", "G", "H", "I", "J", "K", "L", "M",
      "N", "O", "P", "Q", "R", "S", "T", "U", "V", "W", "X", "Y", "Z">>
LowerChars ==
    <<"a", "b", "c", "d", "e", "f", "g", "h", "i", "j", "k", "l", "m",
      "n", "o", "p", "q", "r", "s", "t", "u", "v", "w", "x", "y", "z">>

LowerChar(c) ==
    IF \E i \in 1..26 : UpperChars[i] = c
    THEN LowerChars[CHOOSE i \in 1..26 : UpperChars[i] = c]
    ELSE c

\* str.lower().
Lower(text) == [i \in 1..Len(text) |-> LowerChar(text[i])]

\* The characters urllib.parse.quote escapes, with their escapes.
Escaped ==
    {<<" ", "%20">>, <<"&", "%26">>, <<"=", "%3D">>, <<"?", "%3F">>,
     <<"'", "%27">>, <<",", "%2C">>, <<"[", "%5B">>, <<"]", "%5D">>,
     <<":", "%3A">>, <<"+", "%2B">>, <<"%", "%25">>, <<"/", "%2F">>}

PercentOf(c) == (CHOOSE e \in Escaped : e[1] = c)[2]

\* urllib.parse.quote(text): '/' is safe, every other reserved character
\* is percent-escaped.
quote(text) ==
    [i \in 1..Len(text) |->
        IF text[i] # "/" /\ \E e \in Escaped : e[1] = text[i]
        THEN PercentOf(text[i]) ELSE text[i]]

\* urllib.parse.quote_plus(text): a space becomes '+', no character is
\* safe beyond the unreserved ones.
quote_plus(text) ==
    [i \in 1..Len(text) |->
        IF text[i] = " " THEN "+"
        ELSE IF \E e \in Escaped : e[1] = text[i]
        THEN PercentOf(text[i]) ELSE text[i]]

\* ------------------------------------------------------------------ dicts
\* A dict is the sequence of its <<key, value>> items in insertion order.
Keys(d) == {d[i][1] : i \in 1..Len(d)}

\* d[k] = v: a new key goes last, an old key keeps its place.
SetItem(d, k, v) ==
    IF k \in Keys(d)
    THEN [i \in 1..Len(d) |-> IF d[i][1] = k THEN <<k, v>> ELSE d[i]]
    ELSE Append(d, <<k, v>>)

\* The query entries of one item under doseq=True: a str is one entry, a
\* list one entry per element, anything else one entry of its str().
ItemEntries(k, v) ==
    IF v.t = "list"
    THEN [i \in 1..Len(v.l) |-> <<quote_plus(<<k>>), quote_plus(Str(v.l[i]))>>]
    ELSE <<<<quote_plus(<<k>>), quote_plus(Str(v))>>>>

RECURSIVE Entries(_)
Entries(d) ==
    IF d = <<>> THEN <<>>
    ELSE ItemEntries(d[1][1], d[1][2]) \o Entries(Tail(d))

RECURSIVE JoinEntries(_)
JoinEntries(es) ==
    IF es = <<>> THEN <<>>
    ELSE es[1][1] \o <<"=">> \o es[1][2] \o
         (IF Len(es) = 1 THEN <<>> ELSE <<"&">> \o JoinEntries(Tail(es)))

\* urllib.parse.urlencode(params, doseq=True).
urlencode(d) == JoinEntries(Entries(d))

\* ------------------------------------------------------- endpoint methods
\* The arguments of a call: a function from the names of the arguments the
\* caller supplied to their values; an argument left out is None.
Arg(a, name) == IF name \in DOMAIN a THEN a[name] ELSE PyNone

\* `if cond: params[k] = v`.
When(cond, d, k, v) == IF cond THEN SetItem(d, k, v) ELSE d

\* `if cond: path += piece`.
Plus(cond, path, piece) == IF cond THEN path \o piece ELSE path

LowerStr(v) == PyStr(Lower(Str(v)))

\* Seeded fault: expand is put into params whether supplied or not, as
\* get_pattern does with its required expand.
get_departures_always_expand(a) ==
    [path |-> <<"/v3/departures/route_type/">> \o Str(Arg(a, "route_type"))
                  \o <<"/stop/">> \o Str(Arg(a, "stop_id")),
     params |-> <<<<"expand", Arg(a, "expand")>>>>]

get_departures_from_stop(a) ==
    LET path == <<"/v3/departures/route_type/">> \o Str(Arg(a, "route_type"))
                    \o <<"/stop/">> \o Str(Arg(a, "stop_id"))
        p1 == When(Truthy(Arg(a, "platform_numbers")), <<>>,
                   "platform_numbers", Arg(a, "platform_numbers"))
        p2 == When(Truthy(Arg(a, "direction_id")), p1,
                   "direction_id", Arg(a, "direction_id"))
        p3 == When(Truthy(Arg(a, "look_backwards")), p2,
                   "look_backwards", Arg(a, "look_backwards"))
        p4 == When(Truthy(Arg(a, "gtfs")), p3, "gtfs", LowerStr(Arg(a, "gtfs")))
        p5 == When(Truthy(Arg(a, "date_utc")), p4, "date_utc", Arg(a, "date_utc"))
        p6 == When(Truthy(Arg(a, "max_results")), p5,
                   "max_results", Arg(a, "max_results"))
        p7 == When(Truthy(Arg(a, "include_cancelled")), p6,
                   "include_cancelled", LowerStr(Arg(a, "include_cancelled")))
        p8 == When(Truthy(Arg(a, "expand")), p7, "expand", LowerStr(Arg(a, "expand")))
    IN  [path |-> Plus(Truthy(Arg(a, "route_id")), path,
                       <<"/route/">> \o Str(Arg(a, "route_id"))),
         params |-> p8]

get_direction_for_route(a) ==
    LET path == <<"/v3/directions/route/">> \o Str(Arg(a, "route_id"))
    IN  [path |-> Plus(Truthy(Arg(a, "route_type")), path,
                       <<"/route_type/">> \o Str(Arg(a, "route_type"))),
         params |-> <<>>]

get_route_for_direction(a) ==
    [path |-> <<"/v3/directions/">> \o Str(Arg(a, "direction_id")),
     params |-> <<>>]

get_disruptions(a) ==
    LET path1 == Plus(Truthy(Arg(a, "route_id")), <<"/v3/disruptions">>,
                      <<"/route/">> \o Str(Arg(a, "route_id")))
        path2 == Plus(Truthy(Arg(a, "stop_id")), path1,
                      <<"/stop/">> \o Str(Arg(a, "stop_id")))
    IN  [path |-> path2,
         params |-> When(Truthy(Arg(a, "disruption_status")), <<>>,
                         "disruption_status", Arg(a, "disruption_status"))]

get_disruption(a) ==
    [path |-> <<"/v3/disruptions/">> \o Str(Arg(a, "disruption_id")),
     params |-> <<>>]

get_disruption_modes(a) ==
    [path |-> <<"/v3/disruptions/modes">>, params |-> <<>>]

get_outlets(a) ==
    LET p1 == When(Truthy(Arg(a, "max_distance")), <<>>,
                   "max_distance", Arg(a, "max_distance"))
        p2 == When(Truthy(Arg(a, "max_results")), p1,
                   "max_results", Arg(a, "max_results"))
    IN  [path |-> Plus(Truthy(Arg(a, "latitude")) /\ Truthy(Arg(a, "longitude")),
                       <<"/v3/outlets">>,
                       <<"/location/">> \o Str(Arg(a, "latitude")) \o <<",">>
                           \o Str(Arg(a, "longitude"))),
         params |-> p2]

get_pattern(a) ==
    LET p1 == SetItem(<<>>, "expand", Arg(a, "expand"))
        p2 == When(Truthy(Arg(a, "stop_id")), p1, "stop_id", Arg(a, "stop_id"))
        p3 == When(Truthy(Arg(a, "date_utc")), p2, "date_utc", Arg(a, "date_utc"))
    IN  [path |-> <<"/v3/pattern/run/">> \o Str(Arg(a, "run_id"))
                      \o <<"/route_type/">> \o Str(Arg(a, "route_type")),
         params |-> p3]

get_routes(a) ==
    LET p1 == When(Truthy(Arg(a, "route_types")), <<>>,
                   "route_types", Arg(a, "route_types"))
        p2 == When(Truthy(Arg(a, "route_name")), p1,
                   "route_name", Arg(a, "route_name"))
    IN  [path |-> <<"/v3/routes">>, params |-> p2]

get_route(a) ==
    [path |-> <<"/v3/routes/">> \o Str(Arg(a, "route_id")), params |-> <<>>]

get_route_types(a) ==
    [path |-> <<"/v3/route_types">>, params |-> <<>>]

get_run(a) ==
    LET path == <<"/v3/runs/">> \o Str(Arg(a, "run_id"))
    IN  [path |-> Plus(Truthy(Arg(a, "route_type")), path,
                       <<"/route_type/">> \o Str(Arg(a, "route_type"))),
         params |-> <<>>]

get_runs_for_route(a) ==
    LET path == <<"/v3/runs/route/">> \o Str(Arg(a, "route_id"))
    IN  [path |-> Plus(Truthy(Arg(a, "route_type")), path,
                       <<"/route_type/">> \o Str(Arg(a, "route_type"))),
         params |-> <<>>]

search(a) ==
    LET p1 == When(Truthy(Arg(a, "route_types")), <<>>,
                   "route_types", Arg(a, "route_types"))
        p2 == When(Truthy(Arg(a, "latitude")), p1, "latitude", Arg(a, "latitude"))
        p3 == When(Truthy(Arg(a, "longitude")), p2, "longitude", Arg(a, "longitude"))
        p4 == When(Truthy(Arg(a, "max_distance")), p3,
                   "max_distance", Arg(a, "max_distance"))
        p5 == When(NotNone(Arg(a, "include_addresses")), p4,
                   "include_addresses", LowerStr(Arg(a, "include_addresses")))
        p6 == When(NotNone(Arg(a, "include_outlets")), p5,
                   "include_outlets", LowerStr(Arg(a, "include_outlets")))
        p7 == When(NotNone(Arg(a, "match_stop_by_suburb")), p6,
                   "match_stop_by_suburb", LowerStr(Arg(a, "match_stop_by_suburb")))
        p8 == When(NotNone(Arg(a, "match_route_by_suburb")), p7,
                   "match_route_by_suburb", LowerStr(Arg(a, "match_route_by_suburb")))
        p9 == When(NotNone(Arg(a, "match_stop_by_gtfs_stop_id")), p8,
                   "match_stop_by_gtfs_stop_id",
                   LowerStr(Arg(a, "match_stop_by_gtfs_stop_id")))
    IN  [path |-> <<"/v3/search/">> \o quote(Str(Arg(a, "search_term"))),
         params |-> p9]

get_stop(a) ==
    LET p1 == When(NotNone(Arg(a, "stop_location")), <<>>,
                   "stop_location", LowerStr(Arg(a, "stop_location")))
        p2 == When(NotNone(Arg(a, "stop_amenities")), p1,
                   "stop_amenities", LowerStr(Arg(a, "stop_amenities")))
        p3 == When(NotNone(Arg(a, "stop_accessibility")), p2,
                   "stop_accessibility", LowerStr(Arg(a, "stop_accessibility")))
        p4 == When(NotNone(Arg(a, "stop_contact")), p3,
                   "stop_contact", LowerStr(Arg(a, "stop_contact")))
        p5 == When(NotNone(Arg(a, "stop_ticket")), p4,
                   "stop_ticket", LowerStr(Arg(a, "stop_ticket")))
        p6 == When(NotNone(Arg(a, "gtfs")), p5, "gtfs", LowerStr(Arg(a, "gtfs")))
        p7 == When(NotNone(Arg(a, "stop_staffing")), p6,
                   "stop_staffing", LowerStr(Arg(a, "stop_staffing")))
        p8 == When(NotNone(Arg(a, "stop_disruptions")), p7,
                   "stop_disruptions", LowerStr(Arg(a, "stop_disruptions")))
    IN  [path |-> <<"/v3/stops/">> \o Str(Arg(a, "stop_id"))
                      \o <<"/route_type/">> \o Str(Arg(a, "route_type")),
         params |-> p8]

get_stops_for_route(a) ==
    LET p1 == When(Truthy(Arg(a, "direction_id")), <<>>,
                   "direction_id", Arg(a, "direction_id"))
        p2 == When(Truthy(Arg(a, "stop_disruptions")), p1,
                   "stop_disruptions", LowerStr(Arg(a, "stop_disruptions")))
    IN  [path |-> <<"/v3/stops/route/">> \o Str(Arg(a, "route_id"))
                      \o <<"/route_type/">> \o Str(Arg(a, "route_type")),
         params |-> p2]

get_stops_for_location(a) ==
    LET p1 == When(Truthy(Arg(a, "route_types")), <<>>,
                   "route_types", Arg(a, "route_types"))
        p2 == When(Truthy(Arg(a, "max_results")), p1,
                   "max_results", Arg(a, "max_results"))
        p3 == When(Truthy(Arg(a, "max_distance")), p2,
                   "max_distance", Arg(a, "max_distance"))
        p4 == When(Truthy(Arg(a, "stop_disruptions")), p3,
                   "stop_disruptions", Arg(a, "stop_disruptions"))
    IN  [path |-> <<"/v3/stops/location/">> \o Str(Arg(a, "latitude"))
                      \o <<",">> \o Str(Arg(a, "longitude")),
         params |-> p4]

\* ------------------------------------------------- the arguments of calls
BoolDom == {PyBool(FALSE), PyBool(TRUE)}
IntDom == {PyInt(0), PyInt(1)}
StopDom == {PyInt(0), PyInt(1071)}
IdDom == {PyInt(1)}
StrDom == {PyStr(<<>>), PyStr(<<"a", " ", "&">>)}
TermDom == {PyStr(<<"F", "l", "i", "n", "d", "e", "r", "s", " ", "S", "t">>)}
CoordDom == {PyInt(0), PyStr(<<"-", "3", "7", ".", "8">>)}
IntListDom == {PyList(<<>>), PyList(<<PyInt(0), PyInt(3)>>)}
ExpandDom ==
    {PyList(<<>>),
     PyList(<<PyStr(<<"A", "l", "l">>), PyStr(<<"s", "t", "o", "p">>)>>)}

Endpoints ==
    {"get_departures_from_stop", "get_direction_for_route",
     "get_route_for_direction", "get_disruptions", "get_disruption",
     "get_disruption_modes", "get_outlets", "get_pattern", "get_routes",
     "get_route", "get_route_types", "get_run", "get_runs_for_route",
     "search", "get_stop", "get_stops_for_route", "get_stops_for_location"}

NoArgs == [n \in {} |-> {}]

\* The positional arguments of each method, with the values tried.
Required(op) ==
    CASE op = "get_departures_from_stop" ->
            ("route_type" :> IntDom) @@ ("stop_id" :> StopDom)
      [] op = "get_direction_for_route" -> ("route_id" :> IdDom)
      [] op = "get_route_for_direction" -> ("direction_id" :> IdDom)
      [] op = "get_disruption" -> ("disruption_id" :> IdDom)
      [] op = "get_pattern" ->
            ("run_id" :> IdDom) @@ ("route_type" :> IntDom)
                @@ ("expand" :> ExpandDom)
      [] op = "get_route" -> ("route_id" :> IdDom)
      [] op = "get_run" -> ("run_id" :> IdDom)
      [] op = "get_runs_for_route" -> ("route_id" :> IdDom)
      [] op = "search" -> ("search_term" :> TermDom)
      [] op = "get_stop" -> ("stop_id" :> IdDom) @@ ("route_type" :> IntDom)
      [] op = "get_stops_for_route" ->
            ("route_id" :> IdDom) @@ ("route_type" :> IntDom)
      [] op = "get_stops_for_location" ->
            ("latitude" :> CoordDom) @@ ("longitude" :> CoordDom)
      [] OTHER -> NoArgs

\* The keyword arguments of each method (default None), with the values
\* tried when the caller supplies one.
Optional(op) ==
    CASE op = "get_departures_from_stop" ->
            ("route_id" :> IntDom) @@ ("platform_numbers" :> IntListDom)
                @@ ("direction_id" :> IntDom) @@ ("look_backwards" :> BoolDom)
                @@ ("gtfs" :> BoolDom) @@ ("date_utc" :> StrDom)
                @@ ("max_results" :> IntDom) @@ ("include_cancelled" :> BoolDom)
                @@ ("expand" :> ExpandDom)
      [] op = "get_direction_for_route" -> ("route_type" :> IntDom)
      [] op = "get_disruptions" ->
            ("route_id" :> IntDom) @@ ("stop_id" :> IntDom)
                @@ ("disruption_status" :> StrDom)
      [] op = "get_outlets" ->
            ("latitude" :> CoordDom) @@ ("longitude" :> CoordDom)
                @@ ("max_distance" :> IntDom) @@ ("max_results" :> IntDom)
      [] op = "get_pattern" -> ("stop_id" :> IntDom) @@ ("date_utc" :> StrDom)
      [] op = "get_routes" ->
            ("route_types" :> IntListDom) @@ ("route_name" :> StrDom)
      [] op = "get_run" -> ("route_type" :> IntDom)
      [] op = "get_runs_for_route" -> ("route_type" :> IntDom)
      [] op = "search" ->
            ("route_types" :> IntListDom) @@ ("latitude" :> CoordDom)
                @@ ("longitude" :> CoordDom) @@ ("max_distance" :> IntDom)
                @@ ("include_addresses" :> BoolDom)
                @@ ("include_outlets" :> BoolDom)
                @@ ("match_stop_by_suburb" :> BoolDom)
                @@ ("match_route_by_suburb" :> BoolDom)
                @@ ("match_stop_by_gtfs_stop_id" :> BoolDom)
      [] op = "get_stop" ->
            ("stop_location" :> BoolDom) @@ ("stop_amenities" :> BoolDom)
                @@ ("stop_accessibility" :> BoolDom)
                @@ ("stop_contact" :> BoolDom) @@ ("stop_ticket" :> BoolDom)
                @@ ("gtfs" :> BoolDom) @@ ("stop_staffing" :> BoolDom)
                @@ ("stop_disruptions" :> BoolDom)
      [] op = "get_stops_for_route" ->
            ("direction_id" :> IntDom) @@ ("stop_disruptions" :> BoolDom)
      [] op = "get_stops_for_location" ->
            ("route_types" :> IntListDom) @@ ("max_results" :> IntDom)
                @@ ("max_distance" :> IntDom) @@ ("stop_disruptions" :> BoolDom)
      [] OTHER -> NoArgs

\* Every way of giving each name of S a value of its domain.
Choices(doms, S) ==
    {f \in [S -> UNION {doms[n] : n \in S}] : \A n \in S : f[n] \in doms[n]}

\* The calls tried: every positional argument given, and at most `supplied`
\* keyword arguments.
Args(op, supplied) ==
    LET req == Required(op)
        opt == Optional(op)
        some == {S \in SUBSET DOMAIN opt : Cardinality(S) <= supplied}
    IN  {r @@ o : r \in Choices(req, DOMAIN req),
                  o \in UNION {Choices(opt, S) : S \in some}}

Apply(op, a) ==
    CASE op = "get_departures_from_stop" -> get_departures_from_stop(a)
      [] op = "get_direction_for_route" -> get_direction_for_route(a)
      [] op = "get_route_for_direction" -> get_route_for_direction(a)
      [] op = "get_disruptions" -> get_disruptions(a)
      [] op = "get_disruption" -> get_disruption(a)
      [] op = "get_disruption_modes" -> get_disruption_modes(a)
      [] op = "get_outlets" -> get_outlets(a)
      [] op = "get_pattern" -> get_pattern(a)
      [] op = "get_routes" -> get_routes(a)
      [] op = "get_route" -> get_route(a)
      [] op = "get_route_types" -> get_route_types(a)
      [] op = "get_run" -> get_run(a)
      [] op = "get_runs_for_route" -> get_runs_for_route(a)
      [] op = "search" -> search(a)
      [] op = "get_stop" -> get_stop(a)
      [] op = "get_stops_for_route" -> get_stops_for_route(a)
      [] op = "get_stops_for_location" -> get_stops_for_location(a)

\* ------------------------------------------------------------------ state
BASE_URL == "http://timetableapi.ptv.vic.gov.au"

\* Two clients with different credentials, each driven by its own thread.
Clients == {"c1", "c2"}
DevIdOf(c) == IF c = "c1" THEN "3001026" ELSE "3001027"
ApiKeyOf(c) ==
    IF c = "c1" THEN "fa83ef37-71d1-49e3-afa1-b8a765327650" ELSE "0b5c9a1e"

\* The two functions that declare `params = {}`: each owns one dict, made
\* when the class body is executed and handed to every call that leaves
\* params out.
Defaulted == {"_getUrl", "_callApi"}

VARIABLES
    dev_id,     \* self.dev_id of each client
    api_key,    \* self.api_key of each client
    defaults,   \* the default dict of _getUrl and of _callApi
    locals,     \* the dict the caller of this call made for it
    pc,         \* where each client's call stands
    call,       \* the call in progress: method, arguments, path, params
    query,      \* _getUrl's local `query`
    signed,     \* the argument _calculateSignature was called with
    url,        \* _getUrl's result
    response,   \* what requests.get returned
    decoded,    \* whether response.json() was run
    gets,       \* HTTP GETs issued by the call in progress
    outcome     \* how the call ended: a value returned or an exception

vars ==
    <<dev_id, api_key, defaults, locals, pc, call, query, signed, url,
      response, decoded, gets, outcome>>

NoCall ==
    [op |-> "", args |-> NoArgs, path |-> <<>>, ref |-> "", given |-> <<>>]
NoResponse == [status |-> 0, body |-> ""]
NoOutcome == [kind |-> "", status |-> 0, value |-> <<>>]

Init ==
    /\ dev_id = [c \in Clients |-> DevIdOf(c)]
    /\ api_key = [c \in Clients |-> ApiKeyOf(c)]
    /\ defaults = [f \in Defaulted |-> <<>>]
    /\ locals = [c \in Clients |-> <<>>]
    /\ pc = [c \in Clients |-> "idle"]
    /\ call = [c \in Clients |-> NoCall]
    /\ query = [c \in Clients |-> <<>>]
    /\ signed = [c \in Clients |-> <<>>]
    /\ url = [c \in Clients |-> <<>>]
    /\ response = [c \in Clients |-> NoResponse]
    /\ decoded = [c \in Clients |-> FALSE]
    /\ gets = [c \in Clients |-> 0]
    /\ outcome = [c \in Clients |-> NoOutcome]

\* The dict that the name `params` of c's call refers to.
Params(c) ==
    IF call[c].ref = "local" THEN locals[c] ELSE defaults[call[c].ref]

\* ------------------------------------------------------------ _getUrl etc.
\* hmac.new(key, raw, sha1).hexdigest().upper(): the digest is one symbol
\* that names the key and the message, so different inputs give different
\* digests.
calculateSignature(key, message) ==
    "HMAC-SHA1(" \o key \o "," \o Flat(message) \o ")"

\* Seeded fault: the dict is rebuilt around the developer id,
\* params = {'devid': self.dev_id}, and loses what the caller put in it.
SetDevIdOnly(d, devid) == <<<<"devid", PyStr(<<devid>>)>>>>

\* Seeded fault: a devid that the dict already holds is kept.
SetDevIdDefault(d, devid) ==
    IF "devid" \in Keys(d) THEN d ELSE SetItem(d, "devid", PyStr(<<devid>>))

\* Seeded fault: the developer id is put in front of the items instead of
\* being assigned in place.
SetDevIdFirst(d, devid) == <<<<"devid", PyStr(<<devid>>)>>>> \o d

\* Line 59: params['devid'] = self.dev_id.
SetDevId(d, devid) == SetItem(d, "devid", PyStr(<<devid>>))

\* Line 60: query = "?" + urllib.parse.urlencode(params, doseq=True).
QueryString(d) == <<"?">> \o urlencode(d)

\* Seeded fault: only the path is signed.
SignedPathOnly(path, q) == path

\* Line 61: the argument of self._calculateSignature.
SignedMessage(path, q) == path \o q

\* Line 61: url = BASE_URL + path + query + "&signature=" + signature.
SignedUrl(path, q, signature) ==
    <<BASE_URL>> \o path \o q \o <<"&", "signature", "=">> \o <<signature>>

\* Seeded fault: only a server error is raised.
RaisesForServerError(status) == 500 <= status /\ status < 600

\* requests.Response.raise_for_status raises HTTPError for 4xx and 5xx.
RaisesForStatus(status) == 400 <= status /\ status < 600

\* What the service may answer.
Statuses == {200, 304, 404, 500}
Bodies == {"{\"status\": {\"health\": 1}}", "<html>"}
ValidJson(body) == body = "{\"status\": {\"health\": 1}}"

\* ---------------------------------------------------------------- actions
\* What a caller of _getUrl or _callApi may pass as path and as params.
DirectPaths == {<<"/v3/route_types">>, <<"/v3/disruptions/modes">>}
CallerDicts ==
    {<<>>,
     <<<<"max_results", PyInt(1)>>>>,
     <<<<"devid", PyStr(<<"0">>)>>, <<"max_results", PyInt(1)>>>>,
     <<<<"max_results", PyInt(1)>>, <<"devid", PyStr(<<"0">>)>>>>,
     <<<<"max_results", PyInt(1)>>, <<"signature", PyStr(<<"0">>)>>>>}

\* Client c enters _getUrl (directly, or as the first thing _callApi does:
\* line 80 evaluates self._getUrl(path, params) before requests.get) with
\* `params` bound to the dict named by ref.
Enter(c, op, a, path, ref, dict) ==
    /\ pc[c] = "idle"
    /\ pc' = [pc EXCEPT ![c] = "getUrl59"]
    /\ locals' = [locals EXCEPT ![c] = dict]
    /\ call' = [call EXCEPT ![c] =
                   [op |-> op, args |-> a, path |-> path, ref |-> ref,
                    given |-> IF ref = "local" THEN dict ELSE defaults[ref]]]
    /\ UNCHANGED <<dev_id, api_key, defaults, query, signed, url, response,
                   decoded, gets, outcome>>

\* An endpoint method: it makes its own `params = {}`, fills it and calls
\* self._callApi(path, params).
CallEndpoint(c, ops, supplied) ==
    \E op \in ops : \E a \in Args(op, supplied) :
        Enter(c, op, a, Apply(op, a).path, "local", Apply(op, a).params)

\* self._callApi(path, params), and self._callApi(path): params is then the
\* default dict of _callApi, which line 80 passes on to _getUrl.
CallCallApi(c, paths, dicts) ==
    \E path \in paths :
        \/ \E d \in dicts : Enter(c, "_callApi", NoArgs, path, "local", d)
        \/ Enter(c, "_callApi", NoArgs, path, "_callApi", <<>>)

\* self._getUrl(path, params), and self._getUrl(path).
CallGetUrl(c, paths, dicts) ==
    \E path \in paths :
        \/ \E d \in dicts : Enter(c, "_getUrl", NoArgs, path, "local", d)
        \/ Enter(c, "_getUrl", NoArgs, path, "_getUrl", <<>>)

\* Seeded fault: the assignment of line 59 is written the other way round,
\* self.dev_id = params['devid'], and takes the caller's entry.
GetUrl59Reversed(c) ==
    /\ pc[c] = "getUrl59"
    /\ pc' = [pc EXCEPT ![c] = "getUrl60"]
    /\ dev_id' = [dev_id EXCEPT ![c] =
                     IF "devid" \in Keys(Params(c))
                     THEN Flat(Params(c)[CHOOSE i \in 1..Len(Params(c)) :
                                            Params(c)[i][1] = "devid"][2].s)
                     ELSE @]
    /\ UNCHANGED <<api_key, defaults, locals, call, query, signed, url,
                   response, decoded, gets, outcome>>

\* Line 59.
GetUrl59(c) ==
    /\ pc[c] = "getUrl59"
    /\ pc' = [pc EXCEPT ![c] = "getUrl60"]
    /\ IF call[c].ref = "local"
       THEN /\ locals' = [locals EXCEPT ![c] = SetDevId(@, dev_id[c])]
            /\ UNCHANGED defaults
       ELSE /\ defaults' = [defaults EXCEPT
                               ![call[c].ref] = SetDevId(@, dev_id[c])]
            /\ UNCHANGED locals
    /\ UNCHANGED <<dev_id, api_key, call, query, signed, url, response,
                   decoded, gets, outcome>>

\* Line 60.
GetUrl60(c) ==
    /\ pc[c] = "getUrl60"
    /\ pc' = [pc EXCEPT ![c] = "getUrl61"]
    /\ query' = [query EXCEPT ![c] = QueryString(Params(c))]
    /\ UNCHANGED <<dev_id, api_key, defaults, locals, call, signed, url,
                   response, decoded, gets, outcome>>

\* Lines 61-62; a direct call of _getUrl ends here with the url.
GetUrl61(c) ==
    /\ pc[c] = "getUrl61"
    /\ LET message == SignedMessage(call[c].path, query[c])
           result == SignedUrl(call[c].path, query[c],
                               calculateSignature(api_key[c], message))
       IN  /\ signed' = [signed EXCEPT ![c] = message]
           /\ url' = [url EXCEPT ![c] = result]
           /\ IF call[c].op = "_getUrl"
              THEN /\ pc' = [pc EXCEPT ![c] = "done"]
                   /\ outcome' = [outcome EXCEPT ![c] =
                          [kind |-> "return", status |-> 0, value |-> result]]
              ELSE /\ pc' = [pc EXCEPT ![c] = "get"]
                   /\ UNCHANGED outcome
    /\ UNCHANGED <<dev_id, api_key, defaults, locals, call, query, response,
                   decoded, gets>>

\* Seeded fault: a request that got no answer is sent again.
RequestsGetRetry(c, statuses) ==
    /\ pc[c] = "get"
    /\ gets' = [gets EXCEPT ![c] = @ + 1]
    /\ \/ UNCHANGED <<pc, outcome, response>>
       \/ /\ \E st \in statuses, body \in Bodies :
                 response' = [response EXCEPT ![c] =
                                 [status |-> st, body |-> body]]
          /\ pc' = [pc EXCEPT ![c] = "raise_for_status"]
          /\ UNCHANGED outcome
    /\ UNCHANGED <<dev_id, api_key, defaults, locals, call, query, signed,
                   url, decoded>>

\* Line 80, requests.get(url): one GET, answered with a response or not at
\* all (requests raises ConnectionError, which _callApi does not catch).
RequestsGet(c, statuses) ==
    /\ pc[c] = "get"
    /\ gets' = [gets EXCEPT ![c] = @ + 1]
    /\ \/ /\ pc' = [pc EXCEPT ![c] = "done"]
          /\ outcome' = [outcome EXCEPT ![c] =
                 [kind |-> "ConnectionError", status |-> 0, value |-> <<>>]]
          /\ UNCHANGED response
       \/ /\ \E st \in statuses, body \in Bodies :
                 response' = [response EXCEPT ![c] =
                                 [status |-> st, body |-> body]]
          /\ pc' = [pc EXCEPT ![c] = "raise_for_status"]
          /\ UNCHANGED outcome
    /\ UNCHANGED <<dev_id, api_key, defaults, locals, call, query, signed,
                   url, decoded>>

\* Line 81, response.raise_for_status().
RaiseForStatus(c) ==
    /\ pc[c] = "raise_for_status"
    /\ IF RaisesForStatus(response[c].status)
       THEN /\ pc' = [pc EXCEPT ![c] = "done"]
            /\ outcome' = [outcome EXCEPT ![c] =
                   [kind |-> "HTTPError", status |-> response[c].status,
                    value |-> <<>>]]
       ELSE /\ pc' = [pc EXCEPT ![c] = "json"]
            /\ UNCHANGED outcome
    /\ UNCHANGED <<dev_id, api_key, defaults, locals, call, query, signed,
                   url, response, decoded, gets>>

\* Seeded fault: a body that is not JSON decodes to an empty object.
JsonOrEmpty(body) ==
    [kind |-> "return", status |-> 0,
     value |-> IF ValidJson(body) THEN <<body>> ELSE <<"{}">>]

\* What response.json() gives: the decoded body, or JSONDecodeError.
JsonOutcome(body) ==
    IF ValidJson(body)
    THEN [kind |-> "return", status |-> 0, value |-> <<body>>]
    ELSE [kind |-> "JSONDecodeError", status |-> 0, value |-> <<>>]

\* Line 82, return response.json().
Json(c) ==
    /\ pc[c] = "json"
    /\ decoded' = [decoded EXCEPT ![c] = TRUE]
    /\ outcome' = [outcome EXCEPT ![c] = JsonOutcome(response[c].body)]
    /\ pc' = [pc EXCEPT ![c] = "done"]
    /\ UNCHANGED <<dev_id, api_key, defaults, locals, call, query, signed,
                   url, response, gets>>

\* The call is over: its frame and the dict its caller made are dropped.
\* The default dicts and the clients live on.
Return(c) ==
    /\ pc[c] = "done"
    /\ pc' = [pc EXCEPT ![c] = "idle"]
    /\ locals' = [locals EXCEPT ![c] = <<>>]
    /\ call' = [call EXCEPT ![c] = NoCall]
    /\ query' = [query EXCEPT ![c] = <<>>]
    /\ signed' = [signed EXCEPT ![c] = <<>>]
    /\ url' = [url EXCEPT ![c] = <<>>]
    /\ response' = [response EXCEPT ![c] = NoResponse]
    /\ decoded' = [decoded EXCEPT ![c] = FALSE]
    /\ gets' = [gets EXCEPT ![c] = 0]
    /\ outcome' = [outcome EXCEPT ![c] = NoOutcome]
    /\ UNCHANGED <<dev_id, api_key, defaults>>

\* ---------------------------------------------------------- specifications
\* One call at a time, on either client: a single-threaded program.
Solo == \A c \in Clients : pc[c] = "idle"

Next ==
    \E c \in Clients :
        \/ Solo /\ CallEndpoint(c, Endpoints, MaxSupplied)
        \/ Solo /\ CallCallApi(c, DirectPaths, CallerDicts)
        \/ Solo /\ CallGetUrl(c, DirectPaths, CallerDicts)
        \/ GetUrl59(c)
        \/ GetUrl60(c)
        \/ GetUrl61(c)
        \/ RequestsGet(c, Statuses)
        \/ RaiseForStatus(c)
        \/ Json(c)
        \/ Return(c)

Spec == Init /\ [][Next]_vars

\* Threads: both clients call at once, and the steps of their calls
\* interleave line by line.
ConcSupplied == 1
ConcEndpoints == {"get_route_types", "get_routes"}
ConcPaths == {<<"/v3/route_types">>}
ConcDicts == {<<>>, <<<<"max_results", PyInt(1)>>>>}
ConcStatuses == {200, 404}

NextConc ==
    \E c \in Clients :
        \/ CallEndpoint(c, ConcEndpoints, ConcSupplied)
        \/ CallCallApi(c, ConcPaths, ConcDicts)
        \/ CallGetUrl(c, ConcPaths, ConcDicts)
        \/ GetUrl59(c)
        \/ GetUrl60(c)
        \/ GetUrl61(c)
        \/ RequestsGet(c, ConcStatuses)
        \/ RaiseForStatus(c)
        \/ Json(c)
        \/ Return(c)

SpecConc == Init /\ [][NextConc]_vars

\* ------------------------------------------------- reading a URL back
\* The pieces of text between the occurrences of sep.
RECURSIVE Split(_, _)
Split(text, sep) ==
    IF \A i \in 1..Len(text) : text[i] # sep THEN <<text>>
    ELSE LET i == CHOOSE i \in 1..Len(text) :
                      text[i] = sep /\ \A j \in 1..(i - 1) : text[j] # sep
         IN  <<SubSeq(text, 1, i - 1)>>
                 \o Split(SubSeq(text, i + 1, Len(text)), sep)

\* text from its first occurrence of sep on, sep left out.
After(text, sep) ==
    LET i == CHOOSE i \in 1..Len(text) :
                 text[i] = sep /\ \A j \in 1..(i - 1) : text[j] # sep
    IN  SubSeq(text, i + 1, Len(text))

\* One "key=value" piece as <<key, value>>.
KeyValue(piece) ==
    IF \A i \in 1..Len(piece) : piece[i] # "="
    THEN <<piece, <<>>>>
    ELSE LET i == CHOOSE i \in 1..Len(piece) :
                      piece[i] = "=" /\ \A j \in 1..(i - 1) : piece[j] # "="
         IN  <<SubSeq(piece, 1, i - 1), SubSeq(piece, i + 1, Len(piece))>>

\* The query entries of a URL, in the order they are transmitted.
UrlEntries(u) ==
    LET pieces == Split(After(u, "?"), "&")
    IN  [i \in 1..Len(pieces) |-> KeyValue(pieces[i])]

\* The values of the entries with key k, in order.
RECURSIVE ValuesOf(_, _)
ValuesOf(es, k) ==
    IF es = <<>> THEN <<>>
    ELSE (IF es[1][1] = <<k>> THEN <<es[1][2]>> ELSE <<>>)
             \o ValuesOf(Tail(es), k)

\* The call of c has built its URL.
Built(c) == pc[c] \in {"get", "raise_for_status", "json", "done"}

\* _getUrl has just returned url[c]: to the caller of a direct call, or to
\* line 80 as the argument of requests.get.
Returned(c) ==
    \/ pc[c] = "get"
    \/ pc[c] = "done" /\ call[c].op = "_getUrl"
IsEndpoint(c) == call[c].op \in Endpoints

\* ================================================================= claims
True == <<"t", "r", "u", "e">>
False == <<"f", "a", "l", "s", "e">>

\* The last index of text that holds sep.
LastIndex(text, sep) ==
    CHOOSE i \in 1..Len(text) :
        text[i] = sep /\ \A j \in (i + 1)..Len(text) : text[j] # sep

\* C1: when _getUrl returns a URL, the URL is the base host, then exactly
\* the message that was handed to _calculateSignature, then "&signature="
\* and the digest of that message under the client's API key, and nothing
\* after it; the message is the path, "?" and the encoding of params as
\* they are, key by key in the dict's order.
C1_SignedIsTransmitted ==
    \A c \in Clients :
        Returned(c) =>
            LET rest == Tail(url[c])
                amp == LastIndex(rest, "&")
            IN  /\ Head(url[c]) = BASE_URL
                /\ SubSeq(rest, 1, amp - 1) = signed[c]
                /\ SubSeq(rest, amp + 1, Len(rest)) =
                       <<"signature", "=",
                         calculateSignature(api_key[c], signed[c])>>
                /\ signed[c] = call[c].path \o <<"?">>
                                   \o JoinEntries(Entries(Params(c)))

C1_Witness ==
    \E c \in Clients :
        /\ pc[c] = "get"
        /\ IsEndpoint(c)
        /\ Len(Params(c)) >= 3

\* C2 as stated: in the URL of every endpoint call, devid is the first key
\* of the query string.
C2_DevIdFirst ==
    \A c \in Clients :
        (Returned(c) /\ IsEndpoint(c)) =>
            UrlEntries(url[c])[1][1] = <<"devid">>

\* C2 as amended: in the URL of every endpoint call, devid occurs exactly
\* once, with the client's dev_id as its value, as the last key of the
\* query before the signature: every endpoint-specific parameter is ahead
\* of it.
C2_DevIdLast ==
    \A c \in Clients :
        (Returned(c) /\ IsEndpoint(c)) =>
            LET es == UrlEntries(url[c])
                n == Len(es)
            IN  /\ n >= 2
                /\ es[n][1] = <<"signature">>
                /\ es[n - 1] = <<<<"devid">>, <<dev_id[c]>>>>
                /\ \A i \in 1..(n - 2) :
                       /\ es[i][1] # <<"devid">>
                       /\ \E k \in DOMAIN call[c].args : es[i][1] = <<k>>

C2_Witness ==
    \E c \in Clients :
        /\ pc[c] = "get"
        /\ IsEndpoint(c)
        /\ Len(UrlEntries(url[c])) >= 4
        /\ UrlEntries(url[c])[1][1] # UrlEntries(url[c])[2][1]

\* The keyword arguments that a method puts into the path, not the query.
PathOptional(op) ==
    CASE op = "get_departures_from_stop" -> {"route_id"}
      [] op = "get_direction_for_route" -> {"route_type"}
      [] op = "get_disruptions" -> {"route_id", "stop_id"}
      [] op = "get_outlets" -> {"latitude", "longitude"}
      [] op = "get_run" -> {"route_type"}
      [] op = "get_runs_for_route" -> {"route_type"}
      [] OTHER -> {}

\* The arguments of c's call that are query parameters and were supplied.
SuppliedQuery(c) ==
    (DOMAIN call[c].args \cap DOMAIN Optional(call[c].op))
        \ PathOptional(call[c].op)

\* C3: every optional query parameter that the caller supplied as a bool or
\* an int, False and 0 included, has an entry in the query of the URL.
C3_SuppliedIsSent ==
    \A c \in Clients :
        (Built(c) /\ IsEndpoint(c)) =>
            \A k \in SuppliedQuery(c) :
                call[c].args[k].t \in {"bool", "int"} =>
                    ValuesOf(UrlEntries(url[c]), k) # <<>>

\* C4: every bool that an endpoint method puts into the query is spelled
\* "true" or "false".
C4_BoolLowercase ==
    \A c \in Clients :
        (Built(c) /\ IsEndpoint(c)) =>
            \A k \in SuppliedQuery(c) :
                call[c].args[k].t = "bool" =>
                    LET vs == ValuesOf(UrlEntries(url[c]), k)
                    IN  \A i \in 1..Len(vs) : vs[i] \in {True, False}

\* The list-valued arguments of c's call that go into the query.
ListArgs(c) ==
    {k \in SuppliedQuery(c) \cup (DOMAIN call[c].args \cap {"expand"}) :
        call[c].args[k].t = "list"}

\* C5: a list supplied to an endpoint method has one entry per element in
\* the query, under the parameter's key, in list order.
C5_ListEntries ==
    \A c \in Clients :
        (Built(c) /\ IsEndpoint(c)) =>
            \A k \in ListArgs(c) :
                ValuesOf(UrlEntries(url[c]), k) =
                    [i \in 1..Len(call[c].args[k].l) |->
                        quote_plus(Str(call[c].args[k].l[i]))]

\* The service has answered c's request.
Answered(c) == response[c].status # 0

\* The call of c has failed with HTTPError for the status it was answered.
FailedWithStatus(c) ==
    /\ ~decoded[c]
    /\ pc[c] # "json"
    /\ pc[c] = "done" =>
           outcome[c] = [kind |-> "HTTPError",
                         status |-> response[c].status, value |-> <<>>]

\* C6 as stated: a response whose status is not a success (2xx) makes the
\* call fail with an HTTP error that carries the status; its body is never
\* decoded and nothing is returned.
C6_NonSuccessFails ==
    \A c \in Clients :
        (Answered(c) /\ ~(200 <= response[c].status /\ response[c].status < 300))
            => FailedWithStatus(c)

\* C6 as amended: a response with a 4xx or 5xx status makes the call fail
\* with an HTTP error that carries the status; its body is never decoded
\* and nothing is returned.
C6_ErrorStatusFails ==
    \A c \in Clients :
        (Answered(c) /\ 400 <= response[c].status /\ response[c].status <= 599)
            => FailedWithStatus(c)

C6_Witness ==
    \E c \in Clients :
        /\ pc[c] = "done"
        /\ IsEndpoint(c)
        /\ response[c].status = 404
        /\ outcome[c].kind = "HTTPError"

\* C7: a response that passed the status check with a body that is not
\* JSON ends the call with a decode error, and whatever _callApi returns
\* is the decoded body of a response that was JSON.
C7_BadBodyFails ==
    \A c \in Clients :
        (pc[c] = "done" /\ call[c].op # "_getUrl") =>
            /\ (decoded[c] /\ ~ValidJson(response[c].body)) =>
                   outcome[c] = [kind |-> "JSONDecodeError", status |-> 0,
                                 value |-> <<>>]
            /\ outcome[c].kind = "return" =>
                   /\ ValidJson(response[c].body)
                   /\ outcome[c].value = <<response[c].body>>

C7_Witness ==
    \E c \in Clients :
        /\ pc[c] = "done"
        /\ IsEndpoint(c)
        /\ response[c].status = 200
        /\ ~ValidJson(response[c].body)
        /\ outcome[c].kind = "JSONDecodeError"

\* The query parameters a call was given: those of the dict its caller
\* passed, none when the caller left params out.
LogicalParams(c) == IF call[c].ref = "local" THEN call[c].given ELSE <<>>

\* The URL as a function of credentials, path and parameters alone.
UrlOf(devid, key, path, params) ==
    LET q == QueryString(SetDevId(params, devid))
    IN  SignedUrl(path, q, calculateSignature(key, SignedMessage(path, q)))

\* C8: with one call at a time, the URL that _getUrl returns is determined
\* by the client's credentials, the path and the parameters given: it is
\* the same whatever earlier calls left behind.
C8_Deterministic ==
    \A c \in Clients :
        Returned(c) =>
            url[c] = UrlOf(DevIdOf(c), ApiKeyOf(c), call[c].path,
                           LogicalParams(c))

\* A call that left params out has built its URL although the default
\* dict still held the other client's devid when it began.
C8_Witness ==
    \E c \in Clients :
        /\ pc[c] = "done"
        /\ call[c].op = "_getUrl"
        /\ call[c].ref = "_getUrl"
        /\ call[c].given # <<>>
        /\ call[c].given[1][2] # PyStr(<<dev_id[c]>>)

\* C9: the mapping of a call that leaves params out is fresh: it holds no
\* entry that an earlier call wrote.
C9_FreshMapping ==
    \A c \in Clients :
        (pc[c] # "idle" /\ call[c].ref \in Defaulted) => call[c].given = <<>>

\* C10: under any interleaving, the URL of a call carries the devid of its
\* own client, once, and the digest under that client's API key of the
\* path and query the URL transmits.
C10_OwnCredentials ==
    \A c \in Clients :
        Built(c) =>
            LET rest == Tail(url[c])
                amp == LastIndex(rest, "&")
            IN  /\ ValuesOf(UrlEntries(url[c]), "devid") = <<<<dev_id[c]>>>>
                /\ SubSeq(rest, amp + 1, Len(rest)) =
                       <<"signature", "=",
                         calculateSignature(api_key[c],
                                            SubSeq(rest, 1, amp - 1))>>

\* The call of c goes through _callApi: an endpoint method or _callApi
\* itself.
ViaCallApi(c) == pc[c] # "idle" /\ call[c].op # "_getUrl"

\* The call of c has ended in an exception that reached its caller.
Raised(c) ==
    /\ outcome[c].kind \in {"ConnectionError", "HTTPError", "JSONDecodeError"}
    /\ outcome[c].value = <<>>

Before(text, sep) ==
    LET i == CHOOSE i \in 1..Len(text) :
                 text[i] = sep /\ \A j \in 1..(i - 1) : text[j] # sep
    IN  SubSeq(text, 1, i - 1)

\* The path that a URL requests: what stands between the host and "?".
UrlPath(u) == Flat(Before(Tail(u), "?"))

\* c's call is get_departures_from_stop(route_type, stop_id) and nothing
\* else was supplied.
PlainDepartures(c) ==
    /\ call[c].op = "get_departures_from_stop"
    /\ DOMAIN call[c].args = {"route_type", "stop_id"}

\* C12: get_departures_from_stop(route_type, stop_id) requests the path
\* /v3/departures/route_type/{route_type}/stop/{stop_id}, and the query of
\* its URL has two entries: devid with the client's dev_id, then signature.
C12_PlainDepartures ==
    \A c \in Clients :
        (Returned(c) /\ PlainDepartures(c)) =>
            LET es == UrlEntries(url[c])
            IN  /\ UrlPath(url[c]) =
                       "/v3/departures/route_type/"
                           \o Flat(Digits(call[c].args["route_type"].n))
                           \o "/stop/"
                           \o Flat(Digits(call[c].args["stop_id"].n))
                /\ Len(es) = 2
                /\ es[1] = <<<<"devid">>, <<dev_id[c]>>>>
                /\ es[2][1] = <<"signature">>

\* The call of the spec's scenario: route_type 0, stop 1071.
C12_Witness ==
    \E c \in Clients :
        /\ pc[c] = "get"
        /\ PlainDepartures(c)
        /\ UrlPath(url[c]) = "/v3/departures/route_type/0/stop/1071"

\* The methods whose optional route_type goes into the path.
RouteTypeMethods == {"get_direction_for_route", "get_run", "get_runs_for_route"}

\* text ends with tail.
EndsWith(text, tail) ==
    /\ Len(tail) <= Len(text)
    /\ SubSeq(text, Len(text) - Len(tail) + 1, Len(text)) = tail

\* C13: the path requested by get_direction_for_route, get_run and
\* get_runs_for_route ends with /route_type/{route_type} whenever the
\* caller supplied route_type, 0 included, and has no route_type segment
\* when the caller did not.
C13_RouteTypeSegment ==
    \A c \in Clients :
        (Returned(c) /\ call[c].op \in RouteTypeMethods) =>
            LET path == Before(Tail(url[c]), "?")
            IN  IF "route_type" \in DOMAIN call[c].args
                THEN EndsWith(path,
                              <<"/route_type/">>
                                  \o Digits(call[c].args["route_type"].n))
                ELSE \A i \in 1..Len(path) : path[i] # "/route_type/"

\* C14: dev_id and api_key of every client are the values its constructor
\* was given, whatever calls were made and however they ended.
C14_CredentialsKept ==
    /\ dev_id = [c \in Clients |-> DevIdOf(c)]
    /\ api_key = [c \in Clients |-> ApiKeyOf(c)]

\* A call whose caller passed a dict with a devid of its own has failed.
C14_Witness ==
    \E c \in Clients :
        /\ pc[c] = "done"
        /\ "devid" \in Keys(call[c].given)
        /\ outcome[c].kind = "HTTPError"

\* The items of a dict whose key is not devid, in order.
RECURSIVE Others(_)
Others(d) ==
    IF d = <<>> THEN <<>>
    ELSE (IF d[1][1] = "devid" THEN <<>> ELSE <<d[1]>>) \o Others(Tail(d))

\* before and after are the same dict but for its devid item: that item
\* is mine, in the place of the old devid item if there was one and at the
\* end if not; all other items are the same, in the same order.
OnlyDevIdSet(before, after, mine) ==
    /\ Others(after) = Others(before)
    /\ IF \E i \in 1..Len(before) : before[i][1] = "devid"
       THEN /\ Len(after) = Len(before)
            /\ \A i \in 1..Len(before) :
                   before[i][1] = "devid" => after[i] = mine
       ELSE /\ Len(after) = Len(before) + 1
            /\ after[Len(after)] = mine

\* C15: the step of _getUrl that runs line 59 changes the mapping it was
\* given in its devid item alone, which then holds the client's dev_id, and
\* changes no other dict; the steps that run lines 60 to 62 change no dict
\* at all.
C15_OnlyDevIdWritten ==
    [][\A c \in Clients :
           /\ (pc[c] = "getUrl59" /\ pc'[c] = "getUrl60") =>
                  /\ OnlyDevIdSet(Params(c), Params(c)',
                                  <<"devid", PyStr(<<dev_id[c]>>)>>)
                  /\ \A f \in Defaulted :
                         f # call[c].ref => defaults'[f] = defaults[f]
                  /\ \A o \in Clients :
                         (o # c \/ call[c].ref # "local") =>
                             locals'[o] = locals[o]
           /\ (pc[c] \in {"getUrl60", "getUrl61"} /\ pc'[c] # pc[c]) =>
                  UNCHANGED <<defaults, locals>>]_vars

\* _getUrl has returned after overwriting the caller's own devid item,
\* which stood in front of another item.
C15_Witness ==
    \E c \in Clients :
        /\ pc[c] = "done"
        /\ call[c].op = "_getUrl"
        /\ Len(call[c].given) = 2
        /\ call[c].given[1] = <<"devid", PyStr(<<"0">>)>>
        /\ locals[c][1] = <<"devid", PyStr(<<dev_id[c]>>)>>

====
